---- MODULE Spec2Model ----
\* Model of gazelle/python/resolve.go: the Python import resolver (Resolver.Imports,
\* Resolver.Resolve, addDependency, addResolvedDeps) and the deps-order.txt ordering
\* engine (DepsOrderResolver).
\*
\* Strings are sequences of tokens.  A token is a character, or a run of characters
\* the code never looks inside (".py", "//", "@pip//", "_stubs", ...).  The string
\* "ab" is <<"a","b">>, the path "a/b" is <<"a","/","b">>.
EXTENDS Integers, Sequences, FiniteSets, TLC

\* ---------------------------------------------------------------- bounds
\* Import records handed to the Resolve calls of one run, all calls together.
MaxImports == 2
\* Resolve calls in one run.
MaxResolves == 2
\* addDependency calls made in a row on one pair of sets
MaxCalls == 3

\* ---------------------------------------------------------------- strings
None == <<"<none>">>

\* strings.HasPrefix
HasPrefix(s, p) == Len(p) <= Len(s) /\ SubSeq(s, 1, Len(p)) = p

\* index of the first / last occurrence of token c in s, 0 if absent
\* (strings.Index / strings.LastIndex, one-based)
IndexOf(s, c) ==
    IF \E i \in 1..Len(s) : s[i] = c
    THEN CHOOSE i \in 1..Len(s) : s[i] = c /\ \A j \in 1..(i - 1) : s[j] # c
    ELSE 0

LastIndexOf(s, c) ==
    IF \E i \in 1..Len(s) : s[i] = c
    THEN CHOOSE i \in 1..Len(s) : s[i] = c /\ \A j \in (i + 1)..Len(s) : s[j] # c
    ELSE 0

\* strings.Split(s, sep): Split("", sep) is the one-element list [""]
RECURSIVE Split(_, _)
Split(s, sep) ==
    LET i == IndexOf(s, sep)
    IN IF i = 0 THEN <<s>>
       ELSE <<SubSeq(s, 1, i - 1)>> \o Split(SubSeq(s, i + 1, Len(s)), sep)

\* strings.Join(parts, sep)
RECURSIVE Join(_, _)
Join(parts, sep) ==
    IF Len(parts) = 0 THEN <<>>
    ELSE IF Len(parts) = 1 THEN parts[1]
    ELSE parts[1] \o <<sep>> \o Join(Tail(parts), sep)

\* strings.ReplaceAll(s, old, new) for one-token old and new
ReplaceAll(s, old, new) == [i \in 1..Len(s) |-> IF s[i] = old THEN new ELSE s[i]]

\* strings.TrimSpace
RECURSIVE TrimSpace(_)
TrimSpace(s) ==
    IF Len(s) = 0 THEN s
    ELSE IF s[1] = " " THEN TrimSpace(Tail(s))
    ELSE IF s[Len(s)] = " " THEN TrimSpace(SubSeq(s, 1, Len(s) - 1))
    ELSE s

\* strings.TrimLeft(s, ".")
RECURSIVE TrimLeftDots(_)
TrimLeftDots(s) ==
    IF Len(s) > 0 /\ s[1] = "." THEN TrimLeftDots(Tail(s)) ELSE s

\* filepath.Base for a clean relative path
PathBase(p) == SubSeq(p, LastIndexOf(p, "/") + 1, Len(p))

\* filepath.Dir for a clean relative path ("." when there is no directory part)
PathDir(p) ==
    IF LastIndexOf(p, "/") = 0 THEN <<".">> ELSE SubSeq(p, 1, LastIndexOf(p, "/") - 1)

\* filepath.Join(a, b) for clean relative paths: empty and "." elements vanish
PathJoin(a, b) ==
    LET x == IF a = <<".">> THEN <<>> ELSE a
        y == IF b = <<".">> THEN <<>> ELSE b
    IN IF x = <<>> THEN y
       ELSE IF y = <<>> THEN x
       ELSE x \o <<"/">> \o y

\* path segments of a clean relative path ("" has none)
Segments(p) == IF p = <<>> THEN <<>> ELSE Split(p, "/")

\* filepath.Rel(base, target) for clean relative paths
RECURSIVE RelSegs(_, _)
RelSegs(b, t) ==
    IF Len(b) > 0 /\ Len(t) > 0 /\ b[1] = t[1] THEN RelSegs(Tail(b), Tail(t))
    ELSE [i \in 1..Len(b) |-> <<"..">>] \o t

PathRel(base, target) ==
    LET r == RelSegs(Segments(base), Segments(target))
    IN IF Len(r) = 0 THEN <<".">> ELSE Join(r, "/")

\* filepath.Ext: the extension token when the name ends in one
PathExt(p) == IF Len(p) > 0 /\ p[Len(p)] = ".py" THEN <<".py">> ELSE <<>>

\* strings.TrimSuffix(filename, ".py")
TrimSuffixPy(f) ==
    IF Len(f) > 0 /\ f[Len(f)] = ".py" THEN SubSeq(f, 1, Len(f) - 1) ELSE f

\* the elements of a sequence
Range(s) == {s[i] : i \in 1..Len(s)}

\* ---------------------------------------------------------------- the repository being resolved
\* Build units (rules) of the run: label (Pkg, Name), srcs attribute, and the Python
\* project root configured for the unit's package.
\*   1  //a:m    srcs m.py         root a
\*   2  //ab:m   srcs m.py         root ab
\*   3  //c:m    srcs m.py, u.py   root c
\*   4  //a:u    srcs u.py, v.py   root a
\*   5  //a/b:m  srcs m.py         root a
Units == 1..5

UnitPkg(u) ==
    CASE u = 1 -> <<"a">>
      [] u = 2 -> <<"a", "b">>
      [] u = 3 -> <<"c">>
      [] u = 4 -> <<"a">>
      [] u = 5 -> <<"a", "/", "b">>

UnitName(u) == IF u = 4 THEN <<"u">> ELSE <<"m">>

UnitSrcs(u) ==
    CASE u = 3 -> << <<"m", ".py">>, <<"u", ".py">> >>
      [] u = 4 -> << <<"u", ".py">>, <<"v", ".py">> >>
      [] OTHER -> << <<"m", ".py">> >>

PythonProjectRoot(u) ==
    CASE u = 2 -> <<"a", "b">>
      [] u = 3 -> <<"c">>
      [] OTHER -> <<"a">>

\* label.Label of a unit (one repository: Repo is "" everywhere)
UnitLabel(u) == [Pkg |-> UnitPkg(u), Name |-> UnitName(u)]

\* Label.Rel(from.Repo, from.Pkg).String(): a label of the same package is written
\* relative (":name"), any other one absolute ("//pkg:name")
RelString(l, pkg) ==
    IF l.Pkg = pkg THEN <<":">> \o l.Name
    ELSE <<"//">> \o l.Pkg \o <<":">> \o l.Name

\* Label.String() of an absolute label
AbsString(l) == <<"//">> \o l.Pkg \o <<":">> \o l.Name

pyLibraryEntrypointFilename == <<"__init__", ".py">>

\* gazelle:resolve overrides of the run: import name -> label
OverrideConfigs ==
    { {},
      { << <<"r", ".", "x">>, [Pkg |-> <<"a", "/", "b">>, Name |-> <<"m">>] >> } }

\* resolve.FindRuleWithOverride: the override label of an import name, if any
HasOverride(ov, name) == \E p \in ov : p[1] = name
FindRuleWithOverride(ov, name) == (CHOOSE p \in ov : p[1] = name)[2]

\* strings.ToLower on the distribution names of the manifest
ToLower(s) == [i \in 1..Len(s) |-> IF s[i] = "R" THEN "r" ELSE s[i]]

\* The third-party manifest: module name -> (target, distribution name)
Manifest ==
    { [module |-> <<"r">>, dep |-> <<"@pip//", "r">>, dist |-> <<"R">>],
      [module |-> <<"types_", "r">>, dep |-> <<"@pip//", "types_", "r">>,
       dist |-> <<"types-", "r">>] }

HasThirdParty(name) == \E e \in Manifest : e.module = name
FindThirdPartyDependency(name) == CHOOSE e \in Manifest : e.module = name

\* the four stub companions probed for a distribution, in the order of the code
StubModules(dist) ==
    << ToLower(dist) \o <<"_stubs">>,
       ToLower(dist) \o <<"_types">>,
       <<"types_">> \o ToLower(dist),
       <<"stubs_">> \o ToLower(dist) >>

\* names recognised as part of the standard library
isStdModule(name) == name \in { <<"s">> }

\* Import records (Module values) a unit's sources may hold
Mod(name, frm, tco, line) ==
    [Name |-> name, From |-> frm, TypeCheckingOnly |-> tco,
     Filepath |-> <<"f", ".py">>, LineNumber |-> line]

Modules ==
    { Mod(<<"u">>, <<>>, t, 2) : t \in BOOLEAN }
    \cup { Mod(<<"m">>, <<>>, FALSE, 1),
           Mod(<<"b", ".", "m">>, <<"b">>, FALSE, 3),
           Mod(<<"r">>, <<>>, FALSE, 4),
           Mod(<<"r", ".", "x">>, <<"r">>, FALSE, 5),
           Mod(<<"z">>, <<>>, FALSE, 6),
           Mod(<<"s", ".", "x">>, <<"s">>, FALSE, 7),
           Mod(<<".", "m">>, <<".">>, FALSE, 8) }

\* Pre-resolved dependencies (the _gazelle_python_resolved_deps private attribute):
\* relative labels of the other targets of the unit's package, never the unit itself
PreResolvedChoices(u) ==
    SUBSET { <<":">> \o UnitName(v) : v \in { w \in Units : w # u /\ UnitPkg(w) = UnitPkg(u) } }

\* deps-order.txt as the run finds it: absent, unreadable, readable, or failing
\* after okLines lines were scanned.  The file does not change during a run; what
\* it holds is settled when it is first opened.
OrderLines1 ==
    << <<"m", ".py">>, <<"#", "c">>, <<>>, <<" ", "u", ".py", " ">>,
       <<"a", "/", "b", "/", "m", ".py">> >>

OrderLines2 == << <<"u", ".py">>, <<"m", ".py">>, <<"u", ".py">> >>

NotOpened == [kind |-> "unopened", lines |-> <<>>, okLines |-> 0]

OrderSources ==
    { [kind |-> "missing", lines |-> <<>>, okLines |-> 0],
      [kind |-> "openerr", lines |-> <<>>, okLines |-> 0],
      [kind |-> "ok", lines |-> OrderLines1, okLines |-> Len(OrderLines1)],
      [kind |-> "ok", lines |-> OrderLines2, okLines |-> Len(OrderLines2)],
      [kind |-> "readerr", lines |-> OrderLines1, okLines |-> 4] }

Configs ==
    [ ValidateImportStatements : BOOLEAN,
      GeneratePyiDeps : BOOLEAN,
      ExperimentalAllowRelativeImports : BOOLEAN,
      PerFileGeneration : {FALSE},
      CoarseGrainedGeneration : {FALSE},
      Overrides : OverrideConfigs ]

\* ---------------------------------------------------------------- maps
EmptyMap == [k \in {} |-> 0]

MapPut(f, k, v) == [x \in (DOMAIN f) \cup {k} |-> IF x = k THEN v ELSE f[x]]

\* ---------------------------------------------------------------- DepsOrderResolver
\* the scan loop of LoadDepsOrder over lines i..n of the file, next rank `index`
RECURSIVE ScanLines(_, _, _, _, _)
ScanLines(table, lines, i, n, index) ==
    IF i > n THEN table
    ELSE LET line == TrimSpace(lines[i])
         IN IF line = <<>> \/ HasPrefix(line, <<"#">>)
            THEN ScanLines(table, lines, i + 1, n, index)
            ELSE ScanLines(MapPut(table, line, index), lines, i + 1, n, index + 1)

\* variant of LoadDepsOrderResult: a missing file is an error like any other
LoadDepsOrderResult_MissingIsError(d, src) ==
    IF d.loaded THEN d
    ELSE CASE src.kind \in {"missing", "openerr"} ->
                [d EXCEPT !.opens = @ + 1]
           [] src.kind = "readerr" ->
                [d EXCEPT !.opens = @ + 1,
                          !.fileToIndex = ScanLines(@, src.lines, 1, src.okLines, 0)]
           [] OTHER ->
                [d EXCEPT !.opens = @ + 1, !.loaded = TRUE,
                          !.fileToIndex = ScanLines(@, src.lines, 1, Len(src.lines), 0)]

\* LoadDepsOrder: the resolver's fields and the number of os.Open calls after one
\* call, given the file as found
LoadDepsOrderResult(d, src) ==
    IF d.loaded THEN d
    ELSE CASE src.kind = "missing" ->
                [d EXCEPT !.loaded = TRUE, !.opens = @ + 1]
           [] src.kind = "openerr" ->
                [d EXCEPT !.opens = @ + 1]
           [] src.kind = "readerr" ->
                [d EXCEPT !.opens = @ + 1,
                          !.fileToIndex = ScanLines(@, src.lines, 1, src.okLines, 0)]
           [] OTHER ->
                [d EXCEPT !.opens = @ + 1, !.loaded = TRUE,
                          !.fileToIndex = ScanLines(@, src.lines, 1, Len(src.lines), 0)]

\* the loop of GetAverageIndex: <<totalIndex, validSrcs>> over srcs
RECURSIVE SumIndex(_, _)
SumIndex(table, srcs) ==
    IF Len(srcs) = 0 THEN <<0, 0>>
    ELSE LET src == srcs[1]
             filename == PathBase(src)
             rest == SumIndex(table, Tail(srcs))
         IN IF src \in DOMAIN table
            THEN <<rest[1] + table[src], rest[2] + 1>>
            ELSE IF filename \in DOMAIN table
            THEN <<rest[1] + table[filename], rest[2] + 1>>
            ELSE rest

\* GetAverageIndex: the float64 result as the fraction <<numerator, denominator>>
GetAverageIndex(table, srcs) ==
    IF Cardinality(DOMAIN table) = 0 THEN <<0, 1>>
    ELSE LET acc == SumIndex(table, srcs)
         IN IF acc[2] = 0 THEN <<Cardinality(DOMAIN table), 1>>
            ELSE acc

\* a < b on fractions with positive denominators
FracLess(a, b) == a[1] * b[2] < b[1] * a[2]

ShouldAddToDepsToRemove(table, currentTargetSrcs, depTargetSrcs) ==
    IF Cardinality(DOMAIN table) = 0 THEN FALSE
    ELSE FracLess(GetAverageIndex(table, currentTargetSrcs),
                  GetAverageIndex(table, depTargetSrcs))

\* RegisterImportSources: every import spec is mapped to the repo-relative srcs
RECURSIVE RegisterImportSources(_, _, _)
RegisterImportSources(m, specs, repoRelativeSrcs) ==
    IF Len(specs) = 0 THEN m
    ELSE RegisterImportSources(MapPut(m, specs[1], repoRelativeSrcs),
                               Tail(specs), repoRelativeSrcs)

getSourcesForImport(m, importName) ==
    IF importName \in DOMAIN m THEN m[importName] ELSE <<>>

\* srcs joined to the package path (lines 148-151 and 510-513)
RepoRelative(pkg, srcs) == [i \in 1..Len(srcs) |-> PathJoin(pkg, srcs[i])]

\* ---------------------------------------------------------------- Imports
importSpecFromSrc(pythonProjectRoot, bzlPkg, src) ==
    LET pythonPkgDir == PathJoin(bzlPkg, PathDir(src))
        rel == PathRel(pythonProjectRoot, pythonPkgDir)
        relPythonPkgDir == IF rel = <<".">> THEN <<>> ELSE rel
        pythonPkg == ReplaceAll(relPythonPkgDir, "/", ".")
        filename == PathBase(src)
        moduleName == TrimSuffixPy(filename)
    IN IF filename = pyLibraryEntrypointFilename /\ pythonPkg # <<>>
       THEN pythonPkg
       ELSE IF pythonPkg = <<>> THEN moduleName
       ELSE pythonPkg \o <<".">> \o moduleName

\* the provides list of Imports
RECURSIVE Provides(_, _, _, _, _)
Provides(c, root, pkg, srcs, all) ==
    IF Len(srcs) = 0 THEN <<>>
    ELSE LET src == srcs[1]
             rest == Provides(c, root, pkg, Tail(srcs), all)
         IN IF PathExt(src) # <<".py">> THEN rest
            ELSE IF c.PerFileGeneration /\ Len(all) > 1
                    /\ src = pyLibraryEntrypointFilename
            THEN rest
            ELSE <<importSpecFromSrc(root, pkg, src)>> \o rest

\* ---------------------------------------------------------------- dependency sets
\* variant of addDependency: a normal dependency is not taken out of pyiDeps
addDependency_NoRemove(dep, typeCheckingOnly, sets) ==
    IF typeCheckingOnly
    THEN IF dep \in sets[1] THEN sets ELSE <<sets[1], sets[2] \cup {dep}>>
    ELSE <<sets[1] \cup {dep}, sets[2]>>

\* addDependency: the pair <<deps, pyiDeps>> after the call
addDependency(dep, typeCheckingOnly, sets) ==
    IF typeCheckingOnly
    THEN IF dep \in sets[1] THEN sets ELSE <<sets[1], sets[2] \cup {dep}>>
    ELSE <<sets[1] \cup {dep}, sets[2] \ {dep}>>

\* addResolvedDeps: deps after the pre-resolved dependencies were added
addResolvedDeps(resolvedDeps, deps) == deps \cup resolvedDeps

\* the stub companions of a third-party match, each added type-checking-only
RECURSIVE AddStubs(_, _)
AddStubs(modules, sets) ==
    IF Len(modules) = 0 THEN sets
    ELSE AddStubs(Tail(modules),
                  IF HasThirdParty(modules[1])
                  THEN addDependency(FindThirdPartyDependency(modules[1]).dep, TRUE, sets)
                  ELSE sets)

\* ---------------------------------------------------------------- candidates
\* possibleModules: the name, then the name with trailing segments dropped
RECURSIVE DropSegments(_)
DropSegments(moduleParts) ==
    IF Len(moduleParts) > 1
    THEN LET shorter == SubSeq(moduleParts, 1, Len(moduleParts) - 1)
         IN <<Join(shorter, ".")>> \o DropSegments(shorter)
    ELSE <<>>

PossibleModules(moduleName) == <<moduleName>> \o DropSegments(Split(moduleName, "."))

\* number of leading dots of mod.From (lines 310-313)
RECURSIVE LeadingDots(_)
LeadingDots(s) == IF Len(s) > 0 /\ s[1] = "." THEN 1 + LeadingDots(Tail(s)) ELSE 0

\* lines 316-346: the absolute name of a relative import, None when it climbs
\* above the package root
RelativeModuleName(m, pkg) ==
    LET relativeDepth == LeadingDots(m.From)
        imported == SubSeq(m.Name, LastIndexOf(m.Name, ".") + 1, Len(m.Name))
        fromPath == TrimLeftDots(m.From)
        fromParts == IF fromPath # <<>> THEN Split(fromPath, ".") ELSE <<>>
        pkgParts == Split(pkg, "/")
        baseParts == IF relativeDepth > 1
                     THEN SubSeq(pkgParts, 1, Len(pkgParts) - (relativeDepth - 1))
                     ELSE pkgParts
    IN IF relativeDepth - 1 > Len(pkgParts) THEN None
       ELSE Join(baseParts \o fromParts \o <<imported>>, ".")

\* ---------------------------------------------------------------- state
VARIABLES
    cfg,            \* the configuration of the run (pythonconfig.Config)
    orderSrc,       \* deps-order.txt as the file system holds it
    ix,             \* resolve.RuleIndex: pairs <<import name, label>>
    indexed,        \* units whose Imports call was made
    fileToIndex,    \* DepsOrderResolver.fileToIndex
    loaded,         \* DepsOrderResolver.loaded
    importToSrcs,   \* DepsOrderResolver.importToSrcs
    opens,          \* os.Open calls on deps-order.txt so far
    pc,             \* position of the running Resolve call ("idle" between calls)
    from,           \* the unit being resolved (0 before the first call)
    total,          \* number of import records of the modules set
    nrec,           \* records the iterator has handed out in this call
    used,           \* records handed out in the run
    mod,            \* the current import record
    chain,          \* possibleModules of the current record
    cidx,           \* index in chain of the candidate tried next
    errs,           \* errs of the current record
    resolved,       \* what the current record resolved to, NoDep if nothing
    deps,           \* the normal dependency set
    pyiDeps,        \* the type-checking-only dependency set
    hasFatalError,
    reported,       \* errors logged for the current unit (line 490)
    out,            \* attributes set on the rule by the last finished Resolve
    exited,         \* os.Exit(1) was called
    resolves,       \* Resolve calls that returned
    calls,          \* addDependency calls made on the sets, in order (SpecAdd)
    relIn,          \* a relative import record and the package it is in (SpecRel)
    relOut          \* the module name the record was rewritten to (SpecRel)

envVars == <<cfg, orderSrc>>
indexVars == <<ix, indexed>>
orderVars == <<fileToIndex, loaded, opens>>
recordVars == <<mod, chain, cidx, errs, resolved>>
setVars == <<deps, pyiDeps>>
runVars == <<exited, resolves>>
pureVars == <<calls, relIn, relOut>>
vars == <<cfg, orderSrc, ix, indexed, fileToIndex, loaded, importToSrcs, opens, pc,
          from, total, nrec, used, mod, chain, cidx, errs, resolved, deps, pyiDeps,
          hasFatalError, reported, out, exited, resolves, calls, relIn, relOut>>

NoDep == [dep |-> None, cand |-> 0, strategy |-> "none"]
NoMod == Mod(<<>>, <<>>, FALSE, 0)
NoOut == [deps |-> {}, pyi_deps |-> {}, deps_to_remove |-> {}]

NoRel == [Pkg |-> <<>>, From |-> <<>>, Name |-> <<>>]
NotRun == <<"<not run>">>

\* a resolver as NewDepsOrderResolver and the host leave it before the first call
IdleResolver ==
    /\ orderSrc = NotOpened
    /\ ix = {}
    /\ indexed = {}
    /\ fileToIndex = EmptyMap
    /\ loaded = FALSE
    /\ importToSrcs = EmptyMap
    /\ opens = 0
    /\ pc = "idle"
    /\ from = 0
    /\ total = 0
    /\ nrec = 0
    /\ used = 0
    /\ mod = NoMod
    /\ chain = <<>>
    /\ cidx = 0
    /\ errs = <<>>
    /\ resolved = NoDep
    /\ deps = {}
    /\ pyiDeps = {}
    /\ hasFatalError = FALSE
    /\ reported = {}
    /\ out = NoOut
    /\ exited = FALSE
    /\ resolves = 0

Init ==
    /\ cfg \in Configs
    /\ IdleResolver
    /\ calls = <<>>
    /\ relIn = NoRel
    /\ relOut = NotRun

\* ---------------------------------------------------------------- Resolver.Imports
\* The host indexes every rule, in the order of its walk, before it resolves any
\* (the index is finished before lookups), so the Imports calls precede the
\* Resolve calls of the run.
Imports(u) ==
    /\ pc = "idle"
    /\ u \notin indexed
    /\ \A v \in Units : v < u => v \in indexed
    /\ LET provides == Provides(cfg, PythonProjectRoot(u), UnitPkg(u),
                                UnitSrcs(u), UnitSrcs(u))
       IN /\ indexed' = indexed \cup {u}
          /\ IF Len(provides) = 0
             THEN UNCHANGED <<ix, importToSrcs>>
             ELSE /\ importToSrcs' =
                        RegisterImportSources(importToSrcs, provides,
                                              RepoRelative(UnitPkg(u), UnitSrcs(u)))
                  /\ ix' = ix \cup { <<provides[i], UnitLabel(u)>> :
                                       i \in 1..Len(provides) }
    /\ UNCHANGED <<envVars, orderVars, pc, from, total, nrec, used, recordVars,
                   setVars, hasFatalError, reported, out, runVars, pureVars>>

\* ix.FindRulesByImportWithConfig: the labels indexed under an import name
FindRulesByImport(index, name) == { p[2] : p \in { q \in index : q[1] = name } }

\* ---------------------------------------------------------------- Resolver.Resolve
\* lines 286-298: a Resolve call starts for unit u with n import records (a nil
\* modulesRaw behaves as an empty set: the loop is not entered)
StartResolve(u) ==
    /\ pc = "idle"
    /\ ~exited
    /\ indexed = Units
    /\ resolves < MaxResolves
    /\ total' \in 0..(MaxImports - used)
    /\ pc' = "loop"
    /\ from' = u
    /\ nrec' = 0
    /\ deps' = {}
    /\ pyiDeps' = {}
    /\ hasFatalError' = FALSE
    /\ reported' = {}
    /\ out' = NoOut
    /\ mod' = NoMod
    /\ chain' = <<>>
    /\ cidx' = 0
    /\ errs' = <<>>
    /\ resolved' = NoDep
    /\ UNCHANGED <<envVars, indexVars, orderVars, importToSrcs, used, exited,
                   resolves, pureVars>>

isPackageGeneration == ~cfg.PerFileGeneration /\ ~cfg.CoarseGrainedGeneration

\* lines 300-363: it.Next() hands out a record; a relative import is rewritten or
\* skipped, then the candidate chain is built
NextRecord ==
    /\ pc = "loop"
    /\ nrec < total
    /\ \E m \in Modules :
          LET relative == HasPrefix(m.From, <<".">>)
              skipped == relative /\ (~cfg.ExperimentalAllowRelativeImports
                                      \/ ~isPackageGeneration
                                      \/ RelativeModuleName(m, UnitPkg(from)) = None)
              moduleName == IF relative THEN RelativeModuleName(m, UnitPkg(from))
                            ELSE m.Name
          IN /\ mod' = m
             /\ nrec' = nrec + 1
             /\ used' = used + 1
             /\ resolved' = NoDep
             /\ errs' = <<>>
             /\ IF skipped
                THEN /\ pc' = "loop"
                     /\ chain' = <<>>
                     /\ cidx' = 0
                ELSE /\ pc' = "cand"
                     /\ chain' = PossibleModules(moduleName)
                     /\ cidx' = 1
    /\ UNCHANGED <<envVars, indexVars, orderVars, importToSrcs, from, total, setVars,
                   hasFatalError, reported, out, runVars, pureVars>>

\* ---------------------------------------------------------------- one candidate
\* variant of UnresolvedImport: the error names the import record, not the candidate
UnresolvedImport_RecordName(m, moduleName) ==
    [kind |-> "unresolved", name |-> m.Name, file |-> m.Filepath,
     line |-> m.LineNumber, targets |-> {}]

\* lines 415-422: the error recorded for a candidate nothing provides
UnresolvedImport(m, moduleName) ==
    [kind |-> "unresolved", name |-> moduleName, file |-> m.Filepath,
     line |-> m.LineNumber, targets |-> {}]

\* lines 445-450: the error recorded for a candidate several targets provide
AmbiguousImport(m, moduleName, filteredMatches) ==
    [kind |-> "ambiguous", name |-> moduleName, file |-> m.Filepath,
     line |-> m.LineNumber, targets |-> { AbsString(l) : l \in filteredMatches }]

\* variant of IsSelfImport: no match is ever taken for the unit itself
IsSelfImport_Never(match, fromLabel) == FALSE

\* FindResult.IsSelfImport(from) (python rules embed nothing)
IsSelfImport(match, fromLabel) == match = fromLabel

\* lines 438-443: the matches whose package has the project root as a prefix
SameRootMatches(filteredMatches, pythonProjectRoot) ==
    { match \in filteredMatches : HasPrefix(match.Pkg, pythonProjectRoot) }

\* lines 461-470: the source file guessed for a first-party dependency
InferredSrcs(moduleName, matchPkg) ==
    LET parts == Split(moduleName, ".")
        srcFile == parts[Len(parts)] \o <<".py">>
    IN <<PathJoin(matchPkg, srcFile)>>

\* lines 367-384: the override branch.  An override naming the unit itself adds
\* nothing and leaves the branch without a continue, so the loop goes on to the
\* next candidate.
OverrideStep(st, u, m, moduleName, i) ==
    LET override == FindRuleWithOverride(cfg.Overrides, moduleName)
        dep == RelString(override, UnitPkg(u))
    IN IF override # UnitLabel(u)
       THEN [st EXCEPT !.next = "modules",
                       !.sets = addDependency(dep, m.TypeCheckingOnly, st.sets),
                       !.resolved = [dep |-> dep, cand |-> i, strategy |-> "override"]]
       ELSE [st EXCEPT !.next = "possible"]

\* lines 386-407: the third-party branch with its stub companions
ThirdPartyStep(st, m, moduleName, i) ==
    LET e == FindThirdPartyDependency(moduleName)
    IN [st EXCEPT !.next = "modules",
                  !.sets = AddStubs(StubModules(e.dist),
                                    addDependency(e.dep, m.TypeCheckingOnly, st.sets)),
                  !.resolved = [dep |-> e.dep, cand |-> i, strategy |-> "third-party"]]

\* lines 409-480: the first-party branch
FirstPartyStep(st, index, u, m, moduleName, i) ==
    LET matches == FindRulesByImport(index, moduleName)
        selfImport == \E match \in matches : IsSelfImport(match, UnitLabel(u))
        sameRootMatches == SameRootMatches(matches, PythonProjectRoot(u))
        accepted == IF Cardinality(matches) > 1 THEN sameRootMatches ELSE matches
        match == CHOOSE l \in accepted : TRUE
        dep == RelString(match, UnitPkg(u))
    IN IF matches = {} /\ isStdModule(moduleName)
       THEN [st EXCEPT !.next = "modules"]
       ELSE IF matches = {} /\ cfg.ValidateImportStatements
       THEN [st EXCEPT !.next = "possible",
                       !.errs = Append(@, UnresolvedImport(m, moduleName))]
       ELSE IF selfImport
       THEN [st EXCEPT !.next = "modules"]
       ELSE IF matches = {}
       THEN [st EXCEPT !.next = "possible"]
       ELSE IF Cardinality(matches) > 1 /\ Cardinality(sameRootMatches) # 1
       THEN [st EXCEPT !.next = "possible",
                       !.errs = Append(@, AmbiguousImport(m, moduleName, matches))]
       ELSE [st EXCEPT !.next = "modules",
                       !.importToSrcs = MapPut(@, dep, InferredSrcs(moduleName, match.Pkg)),
                       !.sets = addDependency(dep, m.TypeCheckingOnly, st.sets),
                       !.resolved = [dep |-> dep, cand |-> i, strategy |-> "catalog"]]

\* lines 365-483: one iteration of POSSIBLE_MODULE_LOOP
CandidateStep(st, index, u, m, moduleName, i) ==
    IF HasOverride(cfg.Overrides, moduleName) THEN OverrideStep(st, u, m, moduleName, i)
    ELSE IF HasThirdParty(moduleName) THEN ThirdPartyStep(st, m, moduleName, i)
    ELSE FirstPartyStep(st, index, u, m, moduleName, i)

\* variant of AfterCandidate: a record that ends by continue MODULES_LOOP passes
\* the error report as well
AfterCandidate_ThroughReport(next, i, n) ==
    IF next = "modules" THEN "report"
    ELSE IF i < n THEN "cand"
    ELSE "report"

\* where control goes after candidate i of n: continue MODULES_LOOP leaves the
\* record, continue POSSIBLE_MODULE_LOOP tries the next candidate, and the end of
\* the candidates falls through to the error report of line 484
AfterCandidate(next, i, n) ==
    IF next = "modules" THEN "loop"
    ELSE IF i < n THEN "cand"
    ELSE "report"

TryCandidate ==
    /\ pc = "cand"
    /\ LET st == CandidateStep([next |-> "possible", sets |-> <<deps, pyiDeps>>,
                                errs |-> errs, importToSrcs |-> importToSrcs,
                                resolved |-> resolved],
                               ix, from, mod, chain[cidx], cidx)
       IN /\ deps' = st.sets[1]
          /\ pyiDeps' = st.sets[2]
          /\ errs' = st.errs
          /\ importToSrcs' = st.importToSrcs
          /\ resolved' = st.resolved
          /\ cidx' = cidx + 1
          /\ pc' = AfterCandidate(st.next, cidx, Len(chain))
    /\ UNCHANGED <<envVars, indexVars, orderVars, from, total, nrec, used, mod, chain,
                   hasFatalError, reported, out, runVars, pureVars>>

\* lines 484-492: the chain ended without a continue MODULES_LOOP
ReportErrors ==
    /\ pc = "report"
    /\ IF Len(errs) > 0
       THEN /\ reported' = reported \cup Range(errs)
            /\ hasFatalError' = TRUE
       ELSE UNCHANGED <<reported, hasFatalError>>
    /\ pc' = "loop"
    /\ UNCHANGED <<envVars, indexVars, orderVars, importToSrcs, from, total, nrec,
                   used, recordVars, setVars, out, runVars, pureVars>>

\* variant of ExitsNow: the process exits as soon as an error is reported
ExitsNow_FailFast(fatal, handedOut, size) == fatal

\* lines 300 and 494: the process exits once the iterator is exhausted, if an
\* error was reported for the unit
ExitsNow(fatal, handedOut, size) == fatal /\ handedOut = size

ExitOnFatalError ==
    /\ pc = "loop"
    /\ ExitsNow(hasFatalError, nrec, total)
    /\ exited' = TRUE
    /\ pc' = "exited"
    /\ UNCHANGED <<envVars, indexVars, orderVars, importToSrcs, from, total, nrec,
                   used, recordVars, setVars, hasFatalError, reported, out, resolves,
                   pureVars>>

\* lines 516-535
createDepsToRemove(table, i2s, currentSrcsPaths, allDeps) ==
    IF Cardinality(DOMAIN table) > 0
    THEN { dep \in allDeps :
             ShouldAddToDepsToRemove(table, currentSrcsPaths,
                                     getSourcesForImport(i2s, dep)) }
    ELSE {}

\* variant of Attributes: a flagged dependency is taken out of deps
Attributes_FlaggedDropped(c, table, i2s, currentSrcsPaths, d, p) ==
    LET all == IF c.GeneratePyiDeps THEN d ELSE d \cup p
        flagged == createDepsToRemove(table, i2s, currentSrcsPaths, all)
    IN [deps |-> all \ flagged,
        deps_to_remove |-> flagged,
        pyi_deps |-> IF c.GeneratePyiDeps THEN p ELSE {}]

\* lines 537-561: the attributes set on the rule (an empty list is not set)
Attributes(c, table, i2s, currentSrcsPaths, d, p) ==
    IF c.GeneratePyiDeps
    THEN [deps |-> d,
          deps_to_remove |-> createDepsToRemove(table, i2s, currentSrcsPaths, d),
          pyi_deps |-> p]
    ELSE [deps |-> d \cup p,
          deps_to_remove |-> createDepsToRemove(table, i2s, currentSrcsPaths, d \cup p),
          pyi_deps |-> {}]

\* what os.Open finds: settled at the first call, the same afterwards
FileAsFound == IF orderSrc = NotOpened THEN OrderSources ELSE {orderSrc}

\* lines 499-562: the iterator is exhausted without a fatal error; the rule's
\* pre-resolved dependencies are merged, the order file is loaded (an error is only
\* logged) and the attributes are set
FinishResolve ==
    /\ pc = "loop"
    /\ nrec = total
    /\ ~hasFatalError
    /\ \E resolvedDeps \in PreResolvedChoices(from), src \in FileAsFound :
          LET d == LoadDepsOrderResult([fileToIndex |-> fileToIndex,
                                        loaded |-> loaded, opens |-> opens], src)
              merged == addResolvedDeps(resolvedDeps, deps)
          IN /\ deps' = merged
             /\ orderSrc' = IF loaded THEN orderSrc ELSE src
             /\ fileToIndex' = d.fileToIndex
             /\ loaded' = d.loaded
             /\ opens' = d.opens
             /\ out' = Attributes(cfg, d.fileToIndex, importToSrcs,
                                  RepoRelative(UnitPkg(from), UnitSrcs(from)),
                                  merged, pyiDeps)
    /\ pc' = "idle"
    /\ resolves' = resolves + 1
    /\ mod' = NoMod
    /\ chain' = <<>>
    /\ cidx' = 0
    /\ errs' = <<>>
    /\ resolved' = NoDep
    /\ UNCHANGED <<cfg, indexVars, importToSrcs, from, total, nrec, used, pyiDeps,
                   hasFatalError, reported, exited, pureVars>>

Next ==
    \/ \E u \in Units : Imports(u)
    \/ \E u \in Units : StartResolve(u)
    \/ NextRecord
    \/ TryCandidate
    \/ ReportErrors
    \/ ExitOnFatalError
    \/ FinishResolve

Spec == Init /\ [][Next]_vars

\* ---------------------------------------------------------------- addDependency alone
\* The two sets of one Resolve call start empty (lines 286-287) and change through
\* addDependency only; here the calls come in any order for any targets.
Targets == { <<":", "m">>, <<":", "u">>, <<"@pip//", "r">> }

DefaultConfig ==
    [ValidateImportStatements |-> TRUE, GeneratePyiDeps |-> TRUE,
     ExperimentalAllowRelativeImports |-> TRUE, PerFileGeneration |-> FALSE,
     CoarseGrainedGeneration |-> FALSE, Overrides |-> {}]

InitAdd ==
    /\ cfg = DefaultConfig
    /\ IdleResolver
    /\ calls = <<>>
    /\ relIn = NoRel
    /\ relOut = NotRun

AddDependencyCall ==
    /\ Len(calls) < MaxCalls
    /\ \E dep \in Targets, typeCheckingOnly \in BOOLEAN :
          LET sets == addDependency(dep, typeCheckingOnly, <<deps, pyiDeps>>)
          IN /\ deps' = sets[1]
             /\ pyiDeps' = sets[2]
             /\ calls' = Append(calls, [dep |-> dep, tco |-> typeCheckingOnly])
    /\ UNCHANGED <<envVars, indexVars, orderVars, importToSrcs, pc, from, total, nrec,
                   used, recordVars, hasFatalError, reported, out, runVars, relIn,
                   relOut>>

NextAdd == AddDependencyCall

SpecAdd == InitAdd /\ [][NextAdd]_vars

\* ---------------------------------------------------------------- relative imports alone
\* Lines 304-347 on one import record: the packages a unit may be in (the
\* repository root package is ""), from-clauses of depth one to three with and
\* without a subpath, and record names with and without a dotted prefix.
RelPkgs == { <<>>, <<"a">>, <<"a", "/", "b">> }

RelFroms ==
    { <<".">>, <<".", ".">>, <<".", ".", ".">>,
      <<".", "x">>, <<".", ".", "x">>, <<".", ".", "x", ".", "y">> }

RelNames(frm) ==
    { <<"m">>, <<"n">>, frm \o <<".", "m">>, frm \o <<".", "n">> }

RelInputs ==
    UNION { { [Pkg |-> p, From |-> f, Name |-> nm] : p \in RelPkgs, nm \in RelNames(f) } :
            f \in RelFroms }

InitRel ==
    /\ cfg = DefaultConfig
    /\ IdleResolver
    /\ calls = <<>>
    /\ relIn \in RelInputs
    /\ relOut = NotRun

\* the record is skipped (None) or its module name is rewritten
NormalizeRelative ==
    /\ relOut = NotRun
    /\ relOut' = IF ~cfg.ExperimentalAllowRelativeImports \/ ~isPackageGeneration
                 THEN None
                 ELSE RelativeModuleName(relIn, relIn.Pkg)
    /\ UNCHANGED <<envVars, indexVars, orderVars, importToSrcs, pc, from, total, nrec,
                   used, recordVars, setVars, hasFatalError, reported, out, runVars,
                   calls, relIn>>

NextRel == NormalizeRelative

SpecRel == InitRel /\ [][NextRel]_vars

\* ---------------------------------------------------------------- claims
\* a Resolve call has returned and no other has started since
Returned == pc = "idle" /\ resolves > 0

\* C1: the normal dependency set and the type-checking-only dependency set a
\* Resolve call ends with have no target in common, pre-resolved dependencies
\* included.
C1_DisjointSets == Returned => deps \cap pyiDeps = {}

\* the rank of a unit: GetAverageIndex of its own srcs, as Resolve computes it for
\* the current unit (lines 508-513)
UnitRank(table, u) == GetAverageIndex(table, RepoRelative(UnitPkg(u), UnitSrcs(u)))

\* the identifier under which unit b appears in the dependency lists of unit a
DepId(a, b) == RelString(UnitLabel(b), UnitPkg(a))

\* C2: with a non-empty order table, a dependency B recorded for unit A (normal or
\* type-checking-only, whatever produced it) is in A's removal list exactly when
\* rank(A) < rank(B), rank(B) being computed from B's own source files.
C2_FlaggedIffRankLess ==
    (Returned /\ DOMAIN fileToIndex # {}) =>
        \A b \in Units :
            DepId(from, b) \in deps \cup pyiDeps =>
                (DepId(from, b) \in out.deps_to_remove
                    <=> FracLess(UnitRank(fileToIndex, from), UnitRank(fileToIndex, b)))

\* C3: every identifier of the emitted removal list is in the emitted deps, and the
\* emitted deps and pyi_deps are those an empty order table gives: every recorded
\* dependency is emitted, flagged or not.
C3_RemovalWithinDeps ==
    Returned =>
        LET unordered == Attributes(cfg, EmptyMap, importToSrcs,
                                    RepoRelative(UnitPkg(from), UnitSrcs(from)),
                                    deps, pyiDeps)
        IN /\ out.deps_to_remove \subseteq out.deps
           /\ out.deps = unordered.deps
           /\ out.pyi_deps = unordered.pyi_deps
           /\ deps \subseteq out.deps
           /\ pyiDeps \subseteq out.deps \cup out.pyi_deps

\* a unit returned with a flagged and an unflagged dependency
C3_Witness ==
    /\ Returned
    /\ out.deps_to_remove # {}
    /\ out.deps \ out.deps_to_remove # {}

\* the identifiers that denote unit u: its relative and its absolute label
SelfIds(u) == { RelString(UnitLabel(u), UnitPkg(u)), AbsString(UnitLabel(u)) }

NothingProvides(name) ==
    /\ ~HasOverride(cfg.Overrides, name)
    /\ ~HasThirdParty(name)
    /\ FindRulesByImport(ix, name) = {}

\* C6: trying a candidate nothing provides adds no dependency; it records no error
\* when the name is a standard-library module or strict validation is off, and
\* otherwise records one UnresolvedImport error carrying the candidate name, the
\* importing file and the line number.
C6_UnresolvedCandidate ==
    [][ (pc = "cand" /\ NothingProvides(chain[cidx])) =>
            /\ deps' = deps
            /\ pyiDeps' = pyiDeps
            /\ resolved' = NoDep
            /\ IF isStdModule(chain[cidx]) \/ ~cfg.ValidateImportStatements
               THEN errs' = errs
               ELSE errs' = Append(errs, [kind |-> "unresolved",
                                          name |-> chain[cidx],
                                          file |-> mod.Filepath,
                                          line |-> mod.LineNumber,
                                          targets |-> {}]) ]_vars

\* the second candidate of a record was just recorded as unresolved
C6_Witness ==
    /\ pc = "report"
    /\ Len(chain) = 2
    /\ Len(errs) = 2
    /\ errs[2].kind = "unresolved"
    /\ errs[2].name = chain[2]
    /\ errs[2].name # mod.Name

\* the chain the claim describes for a name: the name, then the name with its last
\* dotted segment removed, down to the first segment
PrefixChain(name) ==
    LET segs == Split(name, ".")
    IN [k \in 1..Len(segs) |-> Join(SubSeq(segs, 1, Len(segs) - k + 1), ".")]

\* a candidate that matches a strategy: an override rule, a third-party name, or a
\* first-party catalog entry that is accepted
MatchesAStrategy(u, name) ==
    LET matches == FindRulesByImport(ix, name)
    IN \/ HasOverride(cfg.Overrides, name)
       \/ HasThirdParty(name)
       \/ /\ matches # {}
          /\ UnitLabel(u) \notin matches
          /\ \/ Cardinality(matches) = 1
             \/ Cardinality(SameRootMatches(matches, PythonProjectRoot(u))) = 1

\* C5: the candidates of a record are its name and the shorter prefixes of it, most
\* specific first; the record's dependency comes from the first candidate that
\* matches any strategy, by an override rule before a third-party match before a
\* first-party match, and no candidate after it is consulted.
C5_FirstMatchingCandidate ==
    (pc \in {"loop", "cand", "report"} /\ chain # <<>>) =>
        /\ chain = PrefixChain(chain[1])
        /\ resolved # NoDep =>
              /\ cidx = resolved.cand + 1
              /\ \A j \in 1..(resolved.cand - 1) : ~MatchesAStrategy(from, chain[j])
              /\ HasOverride(cfg.Overrides, chain[resolved.cand])
                    => resolved.strategy = "override"
              /\ (~HasOverride(cfg.Overrides, chain[resolved.cand])
                  /\ HasThirdParty(chain[resolved.cand]))
                    => resolved.strategy = "third-party"
              /\ resolved.dep \in deps \cup pyiDeps

\* a package that is the project root directory or a directory below it
UnderRoot(pkg, root) ==
    LET p == Segments(pkg)
        r == Segments(root)
    IN Len(r) <= Len(p) /\ SubSeq(p, 1, Len(r)) = r

\* C7: when two or more first-party matches remain for a candidate, the candidate
\* gives a dependency exactly when one single match lies under the unit's project
\* root, and then that match; otherwise an AmbiguousImport error listing the
\* matches is recorded and nothing is added.
C7_SameRootDisambiguation ==
    [][ LET name == chain[cidx]
            matches == FindRulesByImport(ix, name)
            under == { l \in matches : UnderRoot(l.Pkg, PythonProjectRoot(from)) }
        IN (/\ pc = "cand"
            /\ ~HasOverride(cfg.Overrides, name)
            /\ ~HasThirdParty(name)
            /\ UnitLabel(from) \notin matches
            /\ Cardinality(matches) >= 2) =>
               IF Cardinality(under) = 1
               THEN /\ resolved'.dep = RelString(CHOOSE l \in under : TRUE, UnitPkg(from))
                    /\ resolved'.dep \in deps' \cup pyiDeps'
                    /\ errs' = errs
               ELSE /\ errs' = Append(errs, [kind |-> "ambiguous", name |-> name,
                                             file |-> mod.Filepath,
                                             line |-> mod.LineNumber,
                                             targets |-> { AbsString(l) : l \in matches }])
                    /\ resolved' = NoDep
                    /\ deps' = deps
                    /\ pyiDeps' = pyiDeps ]_vars

\* C8 as stated: the run fails only once every record of the unit was attempted and
\* Resolve was called for every unit of the run.
C8_FailsAfterAllUnits ==
    exited => (nrec = total /\ resolves + 1 >= Cardinality(Units))

\* C8 as amended: the run fails at the end of the import loop of the first unit for
\* which errors were reported: every record of that unit was attempted, its errors
\* were logged, no attribute is set for it and no later Resolve call is made.
C8_FailsAfterUnit ==
    /\ exited => /\ pc = "exited"
                 /\ hasFatalError
                 /\ nrec = total
                 /\ reported # {}
                 /\ out = NoOut
    /\ hasFatalError => (reported # {} /\ pc # "idle")

\* the run failed after the unit's second record; the first one had failed and
\* the second one resolved
C8_Witness ==
    /\ exited
    /\ nrec = 2
    /\ resolved # NoDep
    /\ reported # {}

\* the non-ignored lines of the order source, trimmed, in file order
RECURSIVE NonIgnored(_)
NonIgnored(lines) ==
    IF Len(lines) = 0 THEN <<>>
    ELSE LET line == TrimSpace(lines[1])
         IN IF line = <<>> \/ line[1] = "#" THEN NonIgnored(Tail(lines))
            ELSE <<line>> \o NonIgnored(Tail(lines))

\* the table key a source file is found under: its exact path, else its bare
\* filename, else None
TableKey(table, src) ==
    IF src \in DOMAIN table THEN src
    ELSE IF PathBase(src) \in DOMAIN table THEN PathBase(src)
    ELSE None

RECURSIVE SumOver(_, _, _)
SumOver(table, srcs, idxs) ==
    IF idxs = {} THEN 0
    ELSE LET i == CHOOSE x \in idxs : TRUE
         IN table[TableKey(table, srcs[i])] + SumOver(table, srcs, idxs \ {i})

\* the source lists ranks are asked for
RankInputs ==
    { RepoRelative(UnitPkg(u), UnitSrcs(u)) : u \in Units }
    \cup { <<>>, << <<"v", ".py">> >>, << <<"c", "/", "u", ".py">> >> }

\* C9: with a loaded, non-empty order table every key is a non-ignored line with
\* its zero-based index as rank; the rank of a list of source files is the mean of
\* the ranks of the files found (exact path first, bare filename second), and the
\* number of non-ignored lines of the order source if none is found.
C9_RankIsMeanOrEntryCount ==
    (loaded /\ DOMAIN fileToIndex # {}) =>
        LET entries == NonIgnored(orderSrc.lines)
        IN /\ DOMAIN fileToIndex = Range(entries)
           /\ \A key \in DOMAIN fileToIndex : entries[fileToIndex[key] + 1] = key
           /\ \A srcs \in RankInputs :
                 LET found == { i \in 1..Len(srcs) : TableKey(fileToIndex, srcs[i]) # None }
                     rank == GetAverageIndex(fileToIndex, srcs)
                 IN IF found = {}
                    THEN rank[1] = Len(entries) * rank[2]
                    ELSE rank[1] * Cardinality(found)
                            = SumOver(fileToIndex, srcs, found) * rank[2]

\* C10: the order source is opened at most once in a run, and once a LoadDepsOrder
\* call has returned the resolver is loaded, whatever the call found.
C10_LoadedOnce ==
    /\ opens <= 1
    /\ resolves >= 1 => loaded

\* the attributes a returned Resolve call sets when no order table is in force
Unordered ==
    Attributes(cfg, EmptyMap, importToSrcs,
               RepoRelative(UnitPkg(from), UnitSrcs(from)), deps, pyiDeps)

\* C11: when deps-order.txt cannot be opened or read (other than not existing), the
\* rank table is empty after the call, the unit's deps and pyi_deps are emitted
\* all the same, and nothing is flagged into deps_to_remove.
C11_ReadErrorIsAbsent ==
    (Returned /\ orderSrc.kind \in {"openerr", "readerr"}) =>
        /\ DOMAIN fileToIndex = {}
        /\ out = Unordered
        /\ out.deps_to_remove = {}

\* C12: when deps-order.txt does not exist, loading succeeds with an empty table,
\* and every unit resolved in the run gets its deps and pyi_deps with an empty
\* deps_to_remove, whatever its dependencies are.
C12_MissingMeansNoRemoval ==
    (Returned /\ orderSrc.kind = "missing") =>
        /\ loaded
        /\ opens = 1
        /\ DOMAIN fileToIndex = {}
        /\ out.deps_to_remove = {}
        /\ out = Unordered

\* the second unit of a run without deps-order.txt returned with dependencies
C12_Witness ==
    /\ Returned
    /\ orderSrc.kind = "missing"
    /\ resolves = 2
    /\ out.deps # {}

\* a sequence of addDependency calls applied to a pair of sets
RECURSIVE ApplyCalls(_, _)
ApplyCalls(seq, sets) ==
    IF Len(seq) = 0 THEN sets
    ELSE ApplyCalls(Tail(seq), addDependency(seq[1].dep, seq[1].tco, sets))

\* C13: after any sequence of addDependency calls on empty sets, a target is in
\* the normal set exactly if some call for it was not type-checking-only, and in
\* the type-checking-only set exactly if it was called for and every call for it
\* was type-checking-only; every reordering of the calls ends in the same sets.
C13_NormalWins ==
    LET idx == 1..Len(calls)
    IN /\ \A t \in Targets :
             /\ t \in deps <=> \E i \in idx : calls[i].dep = t /\ ~calls[i].tco
             /\ t \in pyiDeps <=> /\ \E i \in idx : calls[i].dep = t
                                  /\ \A i \in idx : calls[i].dep = t => calls[i].tco
       /\ \A perm \in Permutations(idx) :
             ApplyCalls([i \in idx |-> calls[perm[i]]], <<{}, {}>>) = <<deps, pyiDeps>>

\* one target added type-checking-only, then normally, then type-checking-only
C13_Witness ==
    \E t \in Targets :
        /\ calls = << [dep |-> t, tco |-> TRUE], [dep |-> t, tco |-> FALSE],
                      [dep |-> t, tco |-> TRUE] >>
        /\ t \in deps
        /\ t \notin pyiDeps

\* a candidate with an override rule whose target is the unit itself
SelfOverride(u, name) ==
    /\ HasOverride(cfg.Overrides, name)
    /\ FindRuleWithOverride(cfg.Overrides, name) = UnitLabel(u)

\* C14: once a candidate of a record had an override rule naming the unit itself,
\* the record is settled without a dependency: no less specific candidate has been
\* tried after it, nothing was resolved for the record and no error is recorded
\* for it.
C14_SelfOverrideSettles ==
    (pc \in {"loop", "cand", "report"} /\ chain # <<>>) =>
        \A j \in 1..Len(chain) :
            (j < cidx /\ SelfOverride(from, chain[j])) =>
                /\ cidx = j + 1
                /\ resolved = NoDep
                /\ errs = <<>>

\* the segments the dots of s separate (a dot that starts s or follows a dot
\* separates nothing)
RECURSIVE DottedSegments(_)
DottedSegments(s) ==
    IF Len(s) = 0 THEN <<>>
    ELSE IF s[1] = "." THEN DottedSegments(Tail(s))
    ELSE LET i == IndexOf(s, ".")
         IN IF i = 0 THEN <<s>>
            ELSE <<SubSeq(s, 1, i - 1)>> \o DottedSegments(SubSeq(s, i + 1, Len(s)))

\* C15: a relative import of depth d in a package of n segments is skipped when
\* d - 1 > n; otherwise its name is the first n - (d - 1) package segments, the
\* subpath segments of the from-clause and the imported symbol, joined by dots,
\* without an empty segment and without a leading dot.
C15_RelativeName ==
    relOut # NotRun =>
        LET d == LeadingDots(relIn.From)
            pkgSegs == Segments(relIn.Pkg)
            n == Len(pkgSegs)
            subpath == DottedSegments(relIn.From)
            names == DottedSegments(relIn.Name)
            symbol == names[Len(names)]
        IN IF d - 1 > n
           THEN relOut = None
           ELSE /\ relOut = Join(SubSeq(pkgSegs, 1, n - (d - 1)) \o subpath \o <<symbol>>, ".")
                /\ relOut[1] # "."
                /\ relOut[Len(relOut)] # "."
                /\ \A i \in 1..(Len(relOut) - 1) : ~(relOut[i] = "." /\ relOut[i + 1] = ".")

\* importToSrcs once Imports was called for the units 1..u and for nothing else
RECURSIVE IndexUpTo(_)
IndexUpTo(u) ==
    IF u = 0 THEN EmptyMap
    ELSE LET provides == Provides(cfg, PythonProjectRoot(u), UnitPkg(u),
                                  UnitSrcs(u), UnitSrcs(u))
         IN IF Len(provides) = 0 THEN IndexUpTo(u - 1)
            ELSE RegisterImportSources(IndexUpTo(u - 1), provides,
                                       RepoRelative(UnitPkg(u), UnitSrcs(u)))

\* the order table a resolver that never loaded before reads from the file
FreshTable(src) ==
    LoadDepsOrderResult([fileToIndex |-> EmptyMap, loaded |-> FALSE, opens |-> 0],
                        src).fileToIndex

\* C16: the attributes a Resolve call sets depend on the unit, its import records,
\* the catalog, the configuration and the order source only: a call with at most
\* one record sets what it sets when it is the first Resolve call of the run,
\* whichever other units were resolved before it.
C16_SameInputsSameOutput ==
    [][ (pc = "loop" /\ pc' = "idle" /\ total <= 1) =>
           LET indexed0 == IndexUpTo(Cardinality(Units))
               alone == IF resolved.strategy = "catalog"
                        THEN MapPut(indexed0, resolved.dep, importToSrcs[resolved.dep])
                        ELSE indexed0
           IN /\ fileToIndex' = FreshTable(orderSrc')
              /\ out' = Attributes(cfg, FreshTable(orderSrc'), alone,
                                   RepoRelative(UnitPkg(from), UnitSrcs(from)),
                                   deps', pyiDeps') ]_vars

\* unit r provides name under its top-level qualified name: a source file of r
\* lies directly in the project root directory
RootLevelProvider(r, name) ==
    /\ UnitPkg(r) = PythonProjectRoot(r)
    /\ \E i \in 1..Len(UnitSrcs(r)) :
          importSpecFromSrc(PythonProjectRoot(r), UnitPkg(r), UnitSrcs(r)[i]) = name

\* unit u, in a package nested below its project root, has a source file whose
\* module name is name
NestedSibling(u, name) ==
    /\ UnitPkg(u) # PythonProjectRoot(u)
    /\ UnderRoot(UnitPkg(u), PythonProjectRoot(u))
    /\ \E i \in 1..Len(UnitSrcs(u)) : TrimSuffixPy(UnitSrcs(u)[i]) = name

\* C17: a module name with a provider at the project root and a file of the same
\* name in a nested package is indexed under two different names, and once the
\* nested unit's absolute import of the name was looked up it has resolved to the
\* root-level provider, with no error recorded.
C17_RootLevelProviderWins ==
    \A u, r \in Units :
        LET name == chain[1]
        IN (/\ pc \in {"loop", "report"}
            /\ from = u
            /\ mod.From = <<>>
            /\ Len(chain) = 1
            /\ cidx = 2
            /\ PythonProjectRoot(r) = PythonProjectRoot(u)
            /\ RootLevelProvider(r, name)
            /\ NestedSibling(u, name)) =>
               /\ \A i \in 1..Len(UnitSrcs(u)) :
                     TrimSuffixPy(UnitSrcs(u)[i]) = name =>
                        importSpecFromSrc(PythonProjectRoot(u), UnitPkg(u), UnitSrcs(u)[i])
                            # name
               /\ resolved.dep = RelString(UnitLabel(r), UnitPkg(u))
               /\ resolved.dep # RelString(UnitLabel(u), UnitPkg(u))
               /\ errs = <<>>

\* C18: the errors recorded for the candidates of a record are logged, and mark
\* the unit as failed, only when the last candidate of the record was tried and
\* nothing resolved; a record left by a resolving candidate, a self-import or a
\* standard-library name logs nothing, and the next record starts without errors.
C18_ErrorsOnlyWhenChainFails ==
    [][ /\ (pc = "cand" /\ pc' = "loop") =>
               (reported' = reported /\ hasFatalError' = hasFatalError)
        /\ (pc # "idle" /\ (reported' # reported \/ hasFatalError' # hasFatalError)) =>
               /\ pc = "report"
               /\ cidx = Len(chain) + 1
               /\ resolved = NoDep
               /\ errs # <<>>
               /\ reported' = reported \cup Range(errs)
               /\ hasFatalError'
        /\ (pc = "loop" /\ nrec' = nrec + 1) => errs' = <<>> ]_vars

\* the last record of a unit resolved by a later candidate after an earlier one
\* had recorded an error; nothing was logged and the unit is about to return
C18_Witness ==
    /\ pc = "loop"
    /\ nrec = total
    /\ errs # <<>>
    /\ resolved # NoDep
    /\ resolved.cand > 1
    /\ reported = {}
    /\ ~hasFatalError

====
